---------------------------- MODULE Spec2Model ----------------------------
(***************************************************************************)
(* A model of mazelib (src/mazelib.h): the xoshiro256++ generator, the     *)
(* buffer sizing, the growing-tree traversal of mazelib_generate_extended, *)
(* the blockwise expansion and the high level mazelib_generate.            *)
(*                                                                         *)
(* Unsigned machine words are sequences of bytes, least significant byte   *)
(* first, so that shifts, rotations, exclusive or and wrap-around          *)
(* arithmetic are the ones of the C code at its own width.                 *)
(***************************************************************************)
EXTENDS Integers, Sequences, FiniteSets, TLC

(***************************************************************************)
(* Machine words                                                           *)
(***************************************************************************)

\* sizeof(uint64_t): the bytes of a word of the generator's state.
WordBytes == 8

Pow2(k) == 2 ^ k

\* A sequence given element by element, held as a tuple.
Tuple(f) == f \o <<>>

\* The word of n bytes holding the natural number v (v < 2^31).
FromNat(v, n) ==
    Tuple([j \in 1..n |-> IF j <= 4 THEN (v \div Pow2(8 * (j - 1))) % 256 ELSE 0])

\* A literal, from its hexadecimal digits, most significant first.
FromHex(digits) ==
    Tuple([j \in 1..(Len(digits) \div 2) |->
        digits[Len(digits) - 2 * (j - 1)] + 16 * digits[Len(digits) - 2 * (j - 1) - 1]])

\* Byte j of a word, 0 beyond its ends: what a shift brings in.
ByteAt(a, j) == IF j >= 1 /\ j <= Len(a) THEN a[j] ELSE 0

\* ^ and | on four bits, tabulated, and on bytes and words.
XorBits(a, b) ==
    ((a + b) % 2) + 2 * (((a \div 2) + (b \div 2)) % 2)
    + 4 * (((a \div 4) + (b \div 4)) % 2) + 8 * (((a \div 8) + (b \div 8)) % 2)

XorTable == Tuple([a \in 1..16 |-> Tuple([b \in 1..16 |-> XorBits(a - 1, b - 1)])])

XorByte(a, b) ==
    XorTable[(a % 16) + 1][(b % 16) + 1] + 16 * XorTable[(a \div 16) + 1][(b \div 16) + 1]

Xor(a, b) == Tuple([j \in 1..Len(a) |-> XorByte(a[j], b[j])])

\* a | b is a ^ b ^ (a & b), and a & b is (a + b - (a ^ b)) / 2.
OrByte(a, b) == XorByte(a, b) + ((a + b - XorByte(a, b)) \div 2)

Or(a, b) == Tuple([j \in 1..Len(a) |-> OrByte(a[j], b[j])])

Not(a) == Tuple([j \in 1..Len(a) |-> 255 - a[j]])

\* x << k and x >> k on an unsigned word: bits shifted out are lost.
Shl(a, k) ==
    Tuple([j \in 1..Len(a) |->
        ((ByteAt(a, j - (k \div 8)) * Pow2(k % 8)) % 256)
        + (ByteAt(a, j - (k \div 8) - 1) \div Pow2(8 - (k % 8)))])

Shr(a, k) ==
    Tuple([j \in 1..Len(a) |->
        (ByteAt(a, j + (k \div 8)) \div Pow2(k % 8))
        + ((ByteAt(a, j + (k \div 8) + 1) * Pow2(8 - (k % 8))) % 256)])

RECURSIVE AddFrom(_, _, _, _)
AddFrom(a, b, j, carry) ==
    IF j > Len(a) THEN <<>>
    ELSE LET s == a[j] + b[j] + carry
         IN  <<s % 256>> \o AddFrom(a, b, j + 1, s \div 256)

\* a + b modulo 2^(8 * Len(a)): the carry out of the top byte is dropped.
Add(a, b) == AddFrom(a, b, 1, 0)

\* a - b modulo 2^(8 * Len(a)).
Sub(a, b) == AddFrom(a, Not(b), 1, 1)

\* -a modulo 2^(8 * Len(a)), the unary minus of an unsigned word.
Neg(a) == Sub(FromNat(0, Len(a)), a)

RECURSIVE Column(_, _, _, _)
\* The sum of the byte products a[i] * b[k + 1 - i] for i in 1..k.
Column(a, b, k, i) ==
    IF i > k THEN 0
    ELSE a[i] * b[k + 1 - i] + Column(a, b, k, i + 1)

RECURSIVE MulFrom(_, _, _, _)
MulFrom(a, b, k, carry) ==
    IF k > Len(a) THEN <<>>
    ELSE LET s == Column(a, b, k, 1) + carry
         IN  <<s % 256>> \o MulFrom(a, b, k + 1, s \div 256)

\* a * b modulo 2^(8 * Len(a)).
Mul(a, b) == MulFrom(a, b, 1, 0)

RECURSIVE GtFrom(_, _, _)
GtFrom(a, b, j) ==
    IF j = 0 THEN FALSE
    ELSE IF a[j] # b[j] THEN a[j] > b[j]
         ELSE GtFrom(a, b, j - 1)

\* a > b as unsigned words.
Gt(a, b) == GtFrom(a, b, Len(a))

RECURSIVE ModFrom(_, _, _)
ModFrom(a, m, j) ==
    IF j > Len(a) THEN 0
    ELSE (256 * ModFrom(a, m, j + 1) + a[j]) % m

\* a % m for a word a and a natural m with 0 < m < 2^22.
Mod(a, m) == ModFrom(a, m, 1)

RECURSIVE DivFrom(_, _, _, _)
DivFrom(a, m, j, rem) ==
    IF j = 0 THEN <<>>
    ELSE LET t == 256 * rem + a[j]
         IN  DivFrom(a, m, j - 1, t % m) \o <<t \div m>>

\* a / m for a word a and a natural m with 0 < m < 2^22.
Div(a, m) == DivFrom(a, m, Len(a), 0)

RECURSIVE ToNatFrom(_, _)
ToNatFrom(a, j) ==
    IF j > Len(a) THEN 0
    ELSE a[j] + 256 * ToNatFrom(a, j + 1)

\* The natural number a word holds; only for words below 2^31.
ToNat(a) == ToNatFrom(a, 1)

(***************************************************************************)
(* The pseudo random number generator                                      *)
(***************************************************************************)

SeedIncrement == FromHex(<<9,14,3,7,7,9,11,9,7,15,4,10,7,12,1,5>>)
SeedMul1 == FromHex(<<11,15,5,8,4,7,6,13,1,12,14,4,14,5,11,9>>)
SeedMul2 == FromHex(<<9,4,13,0,4,9,11,11,1,3,3,1,1,1,14,11>>)

\* The three mixing statements of the seeding loop, for the counter value z.
SeedMix3(z) == Xor(z, Shr(z, 31))

SeedMix2(z) == SeedMix3(Mul(Xor(z, Shr(z, 27)), SeedMul2))

SeedMix(z) == SeedMix2(Mul(Xor(z, Shr(z, 30)), SeedMul1))

RECURSIVE SeedFrom(_, _)
\* The rounds i..3 of the seeding loop, entered with the counter x.
SeedFrom(x, i) ==
    IF i = 4 THEN <<>>
    ELSE <<SeedMix(Add(x, SeedIncrement))>> \o SeedFrom(Add(x, SeedIncrement), i + 1)

\* mazelib_prng_seed: the four state words derived from the seed x.
mazelib_prng_seed(x) == SeedFrom(x, 0)

mazelib_prng_rotl(x, k) == Or(Shl(x, k), Shr(x, (8 * Len(x)) - k))

\* The state update of mazelib_prng_next after s[2] ^= s[0] and s[3] ^= s[1]
\* have produced s2 and s3, with t = s[1] << 17.
NextState(s0, s1, s2, s3, t) ==
    <<Xor(s0, s3), Xor(s1, s2), Xor(s2, t), mazelib_prng_rotl(s3, 45)>>

\* mazelib_prng_next: the word returned and the state left behind.  The C
\* array s[0..3] is the sequence s[1..4].
mazelib_prng_next(s) ==
    [value |-> Add(mazelib_prng_rotl(Add(s[1], s[4]), 23), s[1]),
     prng |-> NextState(s[1], s[2], Xor(s[3], s[1]), Xor(s[4], s[2]), Shl(s[2], 17))]

\* NeedsResample with the bound range where the code has -range.
NeedsResampleUnnegated(x, range) ==
    Gt(Sub(x, FromNat(Mod(x, range), Len(x))), FromNat(range, Len(x)))

\* The loop condition of mazelib_prng_next_in_range, x - r > -range, on
\* words of the width of x: TRUE when the draw x is discarded.
NeedsResample(x, range) ==
    Gt(Sub(x, FromNat(Mod(x, range), Len(x))), Neg(FromNat(range, Len(x))))

RECURSIVE mazelib_prng_next_in_range(_, _)
RECURSIVE KeepOrResample(_, _)
\* One round of the do-while loop, for the draw d.
KeepOrResample(d, range) ==
    IF NeedsResample(d.value, range)
    THEN mazelib_prng_next_in_range(d.prng, range)
    ELSE [value |-> Mod(d.value, range), prng |-> d.prng]

\* mazelib_prng_next_in_range for range > 0: draws until a draw is kept.
mazelib_prng_next_in_range(s, range) == KeepOrResample(mazelib_prng_next(s), range)

(***************************************************************************)
(* Buffer sizing                                                           *)
(***************************************************************************)

mazelib_west == 1
mazelib_east == 2
mazelib_north == 4
mazelib_south == 8

UINT8_MAX == FromHex(<<0,0,0,0,0,0,0,0,0,0,0,0,0,0,15,15>>)
UINT16_MAX == FromHex(<<0,0,0,0,0,0,0,0,0,0,0,0,15,15,15,15>>)
UINT32_MAX == FromHex(<<0,0,0,0,0,0,0,0,15,15,15,15,15,15,15,15>>)

\* CellBytesFor with <= where the code has <.
CellBytesForInclusive(temp) ==
    IF ~Gt(temp, UINT8_MAX) THEN 1
    ELSE IF ~Gt(temp, UINT16_MAX) THEN 2
    ELSE IF ~Gt(temp, UINT32_MAX) THEN 4
    ELSE 8

\* The comparisons of the 64 bit cell count temp with the three limits.
CellBytesFor(temp) ==
    IF Gt(UINT8_MAX, temp) THEN 1
    ELSE IF Gt(UINT16_MAX, temp) THEN 2
    ELSE IF Gt(UINT32_MAX, temp) THEN 4
    ELSE 8

\* The number of bytes of one frontier entry.
mazelib_get_cell_bytes_required_for_dimensions(width, height) ==
    CellBytesFor(Mul(FromNat(width, WordBytes), FromNat(height, WordBytes)))

\* 2 * v + 1 in 64 bits: new_width and new_height.
Doubled(v) == Add(Mul(FromNat(v, WordBytes), FromNat(2, WordBytes)), FromNat(1, WordBytes))

\* The size for the frontier of width * height entries (size) and the
\* part added to it for the format.
SizeFor(size, cell_bytes, width, height, blockwise) ==
    IF blockwise # 0
    THEN Add(size, Mul(Doubled(width), Doubled(height)))
    ELSE Add(size, Div(size, cell_bytes))

FrontierSize(cell_bytes, width, height) ==
    Mul(Mul(FromNat(width, WordBytes), FromNat(height, WordBytes)),
        FromNat(cell_bytes, WordBytes))

SizeWith(cell_bytes, width, height, blockwise) ==
    SizeFor(FrontierSize(cell_bytes, width, height), cell_bytes, width, height, blockwise)

\* The required buffer size, as the 64 bit word the function returns.
mazelib_get_required_buffer_size(width, height, blockwise) ==
    IF width = 0 THEN FromNat(0, WordBytes)
    ELSE IF height = 0 THEN FromNat(0, WordBytes)
    ELSE SizeWith(mazelib_get_cell_bytes_required_for_dimensions(width, height),
                  width, height, blockwise)

mazelib_get_cell_index(x, y, height) == (x * height) + y

(***************************************************************************)
(* The caller's buffer.  A buffer is the sequence of its bytes: the byte   *)
(* at offset i is buf[i + 1].  Pointers into it are offsets.               *)
(***************************************************************************)

Rd(buf, off) == buf[off + 1]

Wr(buf, off, v) == [buf EXCEPT ![off + 1] = v]

\* buf with the count bytes from offset off on set to v.
Fill(buf, off, count, v) ==
    Tuple([i \in 1..Len(buf) |-> IF i > off /\ i <= off + count THEN v ELSE buf[i]])

\* Bitwise tests and updates of a direction mask.
HasBit(mask, bit) == (mask \div bit) % 2 = 1

SetBit(mask, bit) == IF HasBit(mask, bit) THEN mask ELSE mask + bit

\* mazelib_assign_cell that stores every value in entry 0.
AssignFirstCell(buf, mem, cell_bytes, cell_index, value) ==
    Tuple([i \in 1..Len(buf) |->
        IF i - 1 >= mem /\ i - 1 < mem + cell_bytes
        THEN IF i - 1 - mem < 4 THEN (value \div Pow2(8 * (i - 1 - mem))) % 256 ELSE 0
        ELSE buf[i]])

\* mazelib_assign_cell and the switches that store a frontier entry: the
\* value, cut to cell_bytes bytes, at entry cell_index of the array at
\* offset mem (lowest byte first).
mazelib_assign_cell(buf, mem, cell_bytes, cell_index, value) ==
    Tuple([i \in 1..Len(buf) |->
        LET k == (i - 1) - (mem + cell_index * cell_bytes)
        IN  IF k >= 0 /\ k < cell_bytes
            THEN IF k < 4 THEN (value \div Pow2(8 * k)) % 256 ELSE 0
            ELSE buf[i]])

RECURSIVE ReadCellFrom(_, _, _, _)
ReadCellFrom(buf, off, cell_bytes, k) ==
    IF k = cell_bytes \/ k = 4 THEN 0
    ELSE Rd(buf, off + k) + 256 * ReadCellFrom(buf, off, cell_bytes, k + 1)

\* The switch that loads entry cell_index of the frontier at offset cells.
ReadCell(buf, cells, cell_bytes, cell_index) ==
    ReadCellFrom(buf, cells + cell_index * cell_bytes, cell_bytes, 0)

\* memmove(dst, src, count) inside the buffer.
memmove(buf, dst, src, count) ==
    Tuple([i \in 1..Len(buf) |->
        IF i > dst /\ i <= dst + count THEN buf[(i - dst) + src] ELSE buf[i]])

(***************************************************************************)
(* The default selection strategy and the steps of one loop iteration      *)
(***************************************************************************)

\* The branch of the default strategy that returns a random index, r
\* being the draw from [0,count) and draw the value drawn from [0,100].
RandomBranch(count, r, draw) ==
    [invoked |-> TRUE, count |-> count, index |-> r.value, prng |-> r.prng,
     draw |-> draw, branch |-> "random"]

\* FixedBranch returning the oldest entry instead of the most recent one.
FixedBranchFirst(count, s, draw) ==
    [invoked |-> TRUE, count |-> count, index |-> 0, prng |-> s,
     draw |-> draw, branch |-> "fixed"]

\* The branch that returns the most recent entry.
FixedBranch(count, s, draw) ==
    [invoked |-> TRUE, count |-> count, index |-> count - 1, prng |-> s,
     draw |-> draw, branch |-> "fixed"]

\* The comparison of the value d drawn from [0,100] with the threshold.
CompareDraw(count, d, threshold) ==
    IF d.value < threshold
    THEN RandomBranch(count, mazelib_prng_next_in_range(d.prng, count), d.value)
    ELSE FixedBranch(count, d.prng, d.value)

\* The callback without the test *random_threshold_percent > 0: it draws
\* from [0,100] whatever the threshold.
CallbackAlwaysDrawing(count, s, threshold) ==
    CompareDraw(count, mazelib_prng_next_in_range(s, 101), threshold)

\* mazelib_high_level_cell_selection_callback, with *user = threshold.  The
\* record holds the index returned, the generator state left behind, the
\* value drawn from [0,100] (-1 when none was drawn) and the branch taken.
mazelib_high_level_cell_selection_callback(count, s, threshold) ==
    IF threshold > 0
    THEN CompareDraw(count, mazelib_prng_next_in_range(s, 101), threshold)
    ELSE FixedBranch(count, s, -1)

\* NeedsSelection with the limit one too high.
NeedsSelectionFromThree(cells_size) == cells_size > 2

\* The test that decides whether the strategy is consulted.
NeedsSelection(cells_size) == cells_size > 1

\* OutOfRange that rejects the index of the last entry too.
OutOfRangeFromLast(cell_index, cells_size) == cell_index >= cells_size - 1

\* The test that rejects the index the strategy returned.
OutOfRange(cell_index, cells_size) == cell_index >= cells_size

\* Swap without the temporary: directions[i] is lost.
SwapWithoutTemp(dirs, i, j) == [dirs EXCEPT ![i] = dirs[j]]

\* The three statements that exchange directions[i] and directions[j].
Swap(dirs, i, j) == [dirs EXCEPT ![i] = dirs[j], ![j] = dirs[i]]

\* One round of the shuffle loop, for the C index i (3, 2, 1).
SwapWith(dirs, i, d) ==
    [directions |-> Swap(dirs, i + 1, d.value + 1), prng |-> d.prng]

ShuffleStep(st, i) ==
    SwapWith(st.directions, i, mazelib_prng_next_in_range(st.prng, i + 1))

\* The shuffle of the directions array: the array and the generator state
\* it leaves.
Shuffle(dirs, s) ==
    ShuffleStep(ShuffleStep(ShuffleStep([directions |-> dirs, prng |-> s], 3), 2), 1)

\* The switch on directions[i]: whether the neighbour lies inside the grid,
\* its coordinates and the opposite direction.
Probe(dir, x, y, width, height) ==
    IF dir = mazelib_west
    THEN [inside |-> x # 0, x |-> x - 1, y |-> y, opposite |-> mazelib_east]
    ELSE IF dir = mazelib_east
    THEN [inside |-> x # width - 1, x |-> x + 1, y |-> y, opposite |-> mazelib_west]
    ELSE IF dir = mazelib_north
    THEN [inside |-> y # 0, x |-> x, y |-> y - 1, opposite |-> mazelib_south]
    ELSE [inside |-> y # height - 1, x |-> x, y |-> y + 1, opposite |-> mazelib_north]

\* AlreadyVisited that takes every cell for unvisited.
NeverVisited(buf, grid, new_cell_index) == FALSE

\* The test "we have already visited the given cell".
AlreadyVisited(buf, grid, new_cell_index) == Rd(buf, grid + new_cell_index) # 0

\* Unvisited without the test of the neighbour's mask.
UnvisitedInside(buf, grid, p, height) == p.inside

\* The neighbour p is one to carve a passage to.
Unvisited(buf, grid, p, height) ==
    p.inside /\ ~AlreadyVisited(buf, grid, mazelib_get_cell_index(p.x, p.y, height))

RECURSIVE FirstUnvisitedShort(_, _, _, _, _, _, _, _)
\* FirstUnvisited with a scan that stops one direction early.
FirstUnvisitedShort(buf, grid, dirs, x, y, width, height, i) ==
    IF i > 3 THEN 0
    ELSE IF Unvisited(buf, grid, Probe(dirs[i], x, y, width, height), height)
         THEN i
         ELSE FirstUnvisitedShort(buf, grid, dirs, x, y, width, height, i + 1)

RECURSIVE FirstUnvisited(_, _, _, _, _, _, _, _)
\* The scan of the four shuffled directions from position i on: the first
\* position whose neighbour is inside the grid and unvisited, 0 if none.
FirstUnvisited(buf, grid, dirs, x, y, width, height, i) ==
    IF i > 4 THEN 0
    ELSE IF Unvisited(buf, grid, Probe(dirs[i], x, y, width, height), height)
         THEN i
         ELSE FirstUnvisited(buf, grid, dirs, x, y, width, height, i + 1)

\* "Carve a two way path between the current and the new cell."
OrInto(buf, off, bit) == Wr(buf, off, SetBit(Rd(buf, off), bit))

\* Carve that stores the direction itself, not its opposite, in the new cell.
CarveSameDirection(buf, grid, current_cell, new_cell_index, dir, opposite_direction) ==
    OrInto(OrInto(buf, grid + current_cell, dir), grid + new_cell_index, dir)

Carve(buf, grid, current_cell, new_cell_index, dir, opposite_direction) ==
    OrInto(OrInto(buf, grid + current_cell, dir),
           grid + new_cell_index, opposite_direction)

\* RemoveCell without the memmove: the last entry is dropped instead.
RemoveCellLast(buf, cells, cell_bytes, cell_index, cells_size) == buf

\* "The current cell has no unvisited neighbors, so we remove it."
RemoveCell(buf, cells, cell_bytes, cell_index, cells_size) ==
    IF cell_index < cells_size - 1
    THEN memmove(buf, cells + cell_index * cell_bytes,
                 cells + (cell_index + 1) * cell_bytes,
                 (cells_size - (cell_index + 1)) * cell_bytes)
    ELSE buf

\* ClearGrid that leaves the grid as the caller passed it.
GridNotCleared(buf, grid, result) == buf

\* "Clear the grid initially."
ClearGrid(buf, grid, result) == Fill(buf, grid, result, 0)

(***************************************************************************)
(* The blockwise expansion                                                 *)
(***************************************************************************)

\* BlockwiseResult with the last parenthesis misplaced.
BlockwiseResultShort(width, height) == (((2 * width) + 1) * (2 * height)) + 1

BlockwiseResult(width, height) == ((2 * width) + 1) * ((2 * height) + 1)

\* OpenIf that opens the wall whatever the mask holds.
OpenAlways(buf, old, bit, new_cell_index) == Wr(buf, new_cell_index, 0)

\* output[new_cell_index] = 0 when the mask read at offset old has the bit.
OpenIf(buf, old, bit, new_cell_index) ==
    IF HasBit(Rd(buf, old), bit) THEN Wr(buf, new_cell_index, 0) ELSE buf

\* ExpandAt that tests the north and west bits where the code tests south
\* and east.
ExpandAtNorthWest(buf, old, new_x, new_y, new_height) ==
    OpenIf(OpenIf(Wr(buf, mazelib_get_cell_index(new_x, new_y, new_height), 0),
                  old, mazelib_north,
                  mazelib_get_cell_index(new_x, new_y + 1, new_height)),
           old, mazelib_west,
           mazelib_get_cell_index(new_x + 1, new_y, new_height))

\* The body of the two nested loops for the cell whose mask is at offset
\* old, each statement on the buffer as the earlier ones left it; new_x,
\* new_y and new_height are 2 * old_x + 1, 2 * old_y + 1 and 2 * height + 1.
ExpandAt(buf, old, new_x, new_y, new_height) ==
    OpenIf(OpenIf(Wr(buf, mazelib_get_cell_index(new_x, new_y, new_height), 0),
                  old, mazelib_south,
                  mazelib_get_cell_index(new_x, new_y + 1, new_height)),
           old, mazelib_east,
           mazelib_get_cell_index(new_x + 1, new_y, new_height))

ExpandCell(buf, grid, old_x, old_y, height) ==
    ExpandAt(buf, grid + mazelib_get_cell_index(old_x, old_y, height),
             (2 * old_x) + 1, (2 * old_y) + 1, (2 * height) + 1)

RECURSIVE ExpandFrom(_, _, _, _, _)
\* The nested loops, old_x outermost, from the k-th cell visited on.
ExpandFrom(buf, grid, width, height, k) ==
    IF k = width * height THEN buf
    ELSE ExpandFrom(ExpandCell(buf, grid, k \div height, k % height, height),
                    grid, width, height, k + 1)

\* The whole blockwise pass: the wall fill, then the loops.
Expand(buf, grid, width, height) ==
    ExpandFrom(Fill(buf, 0, BlockwiseResult(width, height), 1), grid, width, height, 0)

(***************************************************************************)
(* Bounds of the model and the inputs of a call                            *)
(***************************************************************************)

\* The largest width and height a call is given.
MaxWidth == 2
MaxHeight == 3

\* The largest grid on which the caller's own strategy is left free to
\* return any index at every invocation.
MaxFreeCells == 4

\* How many bytes more than required the largest buffer holds.
MaxSlack == 1

\* The seeds of the generator; 42 leads to a draw of 100 from [0,100] at
\* the third invocation of the default strategy.
Seeds == {1, 42}

\* The values of random_threshold_percent (an int8_t).
Thresholds == {-1, 0, 50, 100, 127}

Calls == {1, 2}

ZeroWord == FromNat(0, WordBytes)

RequiredSize(width, height, blockwise) ==
    ToNat(mazelib_get_required_buffer_size(width, height, blockwise))

\* The buffers a caller may pass for a call that requires `required` bytes,
\* with the byte they are filled with before the call: none, one byte
\* short, exact (zeroed or not), or larger.
Buffers(required) ==
    {b \in {[has_output |-> FALSE, output_size |-> 0, garbage |-> 0],
            [has_output |-> TRUE, output_size |-> required - 1, garbage |-> 255],
            [has_output |-> TRUE, output_size |-> required, garbage |-> 0],
            [has_output |-> TRUE, output_size |-> required, garbage |-> 255],
            [has_output |-> TRUE, output_size |-> required + MaxSlack, garbage |-> 170]} :
        b.output_size >= 0}

Shapes ==
    {[width |-> w, height |-> h, blockwise |-> bw] :
        w \in 0..MaxWidth, h \in 0..MaxHeight, bw \in {0, 1}}

\* The calls of the high level mazelib_generate, which owns its generator
\* and uses the default strategy.
GenerateInputs ==
    UNION {{[api |-> "generate", width |-> sh.width, height |-> sh.height,
             seed |-> sd, threshold |-> t, blockwise |-> sh.blockwise,
             has_output |-> b.has_output, output_size |-> b.output_size,
             has_prng |-> TRUE, strategy |-> "default", garbage |-> b.garbage] :
                sd \in Seeds, t \in Thresholds,
                b \in Buffers(RequiredSize(sh.width, sh.height, sh.blockwise))} :
           sh \in Shapes}

\* The strategies a caller of mazelib_generate_extended passes: none, one
\* that always returns count, and (on small grids) one that is free to
\* return any value in 0..count at each invocation.
Strategies(cell_count) ==
    {"null", "always_count"} \cup (IF cell_count <= MaxFreeCells THEN {"free"} ELSE {})

\* The calls of the low level mazelib_generate_extended.
ExtendedInputs ==
    UNION {{[api |-> "extended", width |-> sh.width, height |-> sh.height,
             seed |-> sd, threshold |-> 0, blockwise |-> sh.blockwise,
             has_output |-> b.has_output, output_size |-> b.output_size,
             has_prng |-> hp, strategy |-> st, garbage |-> b.garbage] :
                sd \in Seeds, hp \in BOOLEAN,
                st \in Strategies(sh.width * sh.height),
                b \in Buffers(RequiredSize(sh.width, sh.height, sh.blockwise))} :
           sh \in Shapes}

Inputs == GenerateInputs \cup ExtendedInputs

\* The record of a call that is never made.
NoCall ==
    [api |-> "none", width |-> 0, height |-> 0, seed |-> 0, threshold |-> 0,
     blockwise |-> 0, has_output |-> FALSE, output_size |-> 0,
     has_prng |-> FALSE, strategy |-> "null", garbage |-> 0]

(***************************************************************************)
(* State                                                                   *)
(***************************************************************************)

VARIABLES
    args,        \* the arguments of each call
    pc,          \* where each call stands
    prng,        \* the mazelib_prng the call uses: its four words
    threshold,   \* random_threshold_percent of mazelib_generate (*user)
    output,      \* the caller's buffer
    frame,       \* required_size, cell_bytes, result and the offsets of
                 \* grid and cells in output
    cells_size,  \* the length of the frontier
    directions,  \* the directions array
    ret,         \* the value returned
    hist         \* what the last loop iteration did, and counts of steps

vars == <<args, pc, prng, threshold, output, frame, cells_size, directions, ret, hist>>

NoFrame == [required_size |-> 0, cell_bytes |-> 0, result |-> 0, grid |-> 0, cells |-> 0]

NoSelection ==
    [invoked |-> FALSE, count |-> 0, index |-> 0, draw |-> -1, branch |-> "none"]

NoStep == [kind |-> "none", count |-> 0, cell_index |-> 0, cell |-> 0, neighbour |-> 0]

\* What the model records of a call: the last selection and step, how many
\* iterations carved and removed, and the cells in the order in which they
\* were appended to the frontier and removed from it.
NoHist ==
    [sel |-> NoSelection, step |-> NoStep, carved |-> 0, removed |-> 0,
     inserted |-> <<>>, deleted |-> <<>>]

\* The state of call c before it is made with the arguments a.  The caller
\* of the low level interface has seeded its generator.
InitCall(a) ==
    [pc |-> IF a.api = "generate" THEN "generate"
            ELSE IF a.api = "extended" THEN "entry" ELSE "idle",
     prng |-> IF a.api = "extended" /\ a.has_prng
              THEN mazelib_prng_seed(FromNat(a.seed, WordBytes))
              ELSE <<ZeroWord, ZeroWord, ZeroWord, ZeroWord>>,
     output |-> IF a.has_output THEN Tuple([i \in 1..a.output_size |-> a.garbage]) ELSE <<>>]

\* Everything but the position of each call.
InitState(as) ==
    /\ args = as
    /\ prng = [c \in Calls |-> InitCall(as[c]).prng]
    /\ threshold = [c \in Calls |-> as[c].threshold]
    /\ output = [c \in Calls |-> InitCall(as[c]).output]
    /\ frame = [c \in Calls |-> NoFrame]
    /\ cells_size = [c \in Calls |-> 0]
    /\ directions = [c \in Calls |-> <<0, 0, 0, 0>>]
    /\ ret = [c \in Calls |-> 0]
    /\ hist = [c \in Calls |-> NoHist]

InitWith(as) ==
    /\ pc = [c \in Calls |-> InitCall(as[c]).pc]
    /\ InitState(as)

\* One call, with any of the inputs.
Init == \E a \in Inputs : InitWith([c \in Calls |-> IF c = 1 THEN a ELSE NoCall])

(***************************************************************************)
(* Actions                                                                 *)
(***************************************************************************)

\* The threshold mazelib_generate passes on and the generator state it
\* leaves, from the freshly seeded state.
SettleThreshold(t, seeded) ==
    IF t < 0 THEN mazelib_prng_next_in_range(seeded, 101)
    ELSE IF t > 100 THEN [value |-> 100, prng |-> seeded]
    ELSE [value |-> t, prng |-> seeded]

GenerateWith(c, d) ==
    /\ threshold' = [threshold EXCEPT ![c] = d.value]
    /\ prng' = [prng EXCEPT ![c] = d.prng]

\* mazelib_generate up to its call of mazelib_generate_extended: seeds its
\* own generator and settles the threshold.
mazelib_generate(c) ==
    /\ pc[c] = "generate"
    /\ GenerateWith(c, SettleThreshold(threshold[c],
                        mazelib_prng_seed(FromNat(args[c].seed, WordBytes))))
    /\ pc' = [pc EXCEPT ![c] = "entry"]
    /\ UNCHANGED <<args, output, frame, cells_size, directions, ret, hist>>

\* ArgumentsRejected without the check of the callback.
ArgumentsRejectedWithoutCallback(has_output, output_size, required_size, has_prng, has_callback) ==
    \/ ~has_output
    \/ output_size < required_size
    \/ ~has_prng

\* The four argument checks of mazelib_generate_extended.
ArgumentsRejected(has_output, output_size, required_size, has_prng, has_callback) ==
    \/ ~has_output
    \/ output_size < required_size
    \/ ~has_prng
    \/ ~has_callback

\* The locals set once: the sizes and the offsets of grid and cells in
\* output, by format.
Layout(blockwise, required_size, cell_bytes, result) ==
    IF blockwise # 0
    THEN [required_size |-> required_size, cell_bytes |-> cell_bytes, result |-> result,
          grid |-> required_size - result, cells |-> 0]
    ELSE [required_size |-> required_size, cell_bytes |-> cell_bytes, result |-> result,
          grid |-> 0, cells |-> result]

EnterWith(c, a, required_size) ==
    IF ArgumentsRejected(a.has_output, a.output_size, required_size,
                         a.has_prng, a.strategy # "null")
    THEN /\ pc' = [pc EXCEPT ![c] = "done"]
         /\ ret' = [ret EXCEPT ![c] = 0]
         /\ UNCHANGED <<frame, directions>>
    ELSE /\ pc' = [pc EXCEPT ![c] = "start"]
         /\ frame' = [frame EXCEPT ![c] =
                Layout(a.blockwise, required_size,
                       mazelib_get_cell_bytes_required_for_dimensions(a.width, a.height),
                       a.width * a.height)]
         /\ directions' = [directions EXCEPT ![c] =
                <<mazelib_west, mazelib_east, mazelib_north, mazelib_south>>]
         /\ UNCHANGED ret

\* mazelib_generate_extended from its entry to the initialised directions
\* array: returns 0 on a rejected argument, or lays out the buffer.
Enter(c) ==
    /\ pc[c] = "entry"
    /\ EnterWith(c, args[c],
                 RequiredSize(args[c].width, args[c].height, args[c].blockwise))
    /\ UNCHANGED <<args, prng, threshold, output, cells_size, hist>>

\* The start cell from the draws of x and y.
StartIndex(dx, dy, height) ==
    [cell |-> mazelib_get_cell_index(dx.value, dy.value, height), prng |-> dy.prng]

DrawY(dx, height) == StartIndex(dx, mazelib_prng_next_in_range(dx.prng, height), height)

\* The two draws of the start cell, x first.
StartCell(s, width, height) == DrawY(mazelib_prng_next_in_range(s, width), height)

StartWith(c, f, st) ==
    /\ output' = [output EXCEPT ![c] =
            mazelib_assign_cell(ClearGrid(output[c], f.grid, f.result),
                                f.cells, f.cell_bytes, 0, st.cell)]
    /\ prng' = [prng EXCEPT ![c] = st.prng]
    /\ hist' = [hist EXCEPT ![c].inserted = <<st.cell>>]

\* "Clear the grid initially" and "Start by inserting a random cell", for
\* a grid with at least one cell.
Start(c) ==
    /\ pc[c] = "start"
    /\ args[c].width # 0 /\ args[c].height # 0
    /\ StartWith(c, frame[c], StartCell(prng[c], args[c].width, args[c].height))
    /\ cells_size' = [cells_size EXCEPT ![c] = 1]
    /\ pc' = [pc EXCEPT ![c] = "loop"]
    /\ UNCHANGED <<args, threshold, frame, directions, ret>>

\* What a call that went on after undefined behaviour may return.
UndefinedReturns == {0, 1}

\* The start cells such a call may store in entry 0 of the frontier.
UndefinedCells == {0, 255}

\* The call goes on after the undefined draw: line 424 stores the start
\* cell temp in entry 0 of the frontier (the part of it that lies in the
\* caller's buffer is what the model keeps), and the call returns v.
GoesOn(c, v, temp) ==
    /\ output' = [output EXCEPT ![c] =
            mazelib_assign_cell(output[c], frame[c].cells, frame[c].cell_bytes, 0, temp)]
    /\ pc' = [pc EXCEPT ![c] = "done"]
    /\ ret' = [ret EXCEPT ![c] = v]

\* The same statements when width or height is 0: the argument checks let
\* the call through (the required size is 0), and the draw of the start
\* cell computes x % 0.  The behaviour is undefined: the process is killed,
\* or the call goes on with values no statement of the program defines and
\* returns whatever it then computes.
StartUndefined(c) ==
    /\ pc[c] = "start"
    /\ args[c].width = 0 \/ args[c].height = 0
    /\ \/ /\ pc' = [pc EXCEPT ![c] = "crashed"]
          /\ UNCHANGED <<ret, output>>
       \/ \E v \in UndefinedReturns, temp \in UndefinedCells : GoesOn(c, v, temp)
    /\ UNCHANGED <<args, prng, threshold, frame, cells_size, directions, hist>>

\* The strategy of the caller that returns index, and leaves the generator
\* alone.
UserSelection(count, index, s) ==
    [invoked |-> TRUE, count |-> count, index |-> index, prng |-> s,
     draw |-> -1, branch |-> "user"]

\* What the selection of the frontier index may yield for a frontier of
\* count entries: index 0 without a call when the strategy is not
\* consulted, else what the strategy returns and the generator state it
\* leaves.
Selections(strategy, count, s, t) ==
    IF ~NeedsSelection(count)
    THEN {[invoked |-> FALSE, count |-> count, index |-> 0, prng |-> s,
           draw |-> -1, branch |-> "none"]}
    ELSE IF strategy = "default"
    THEN {mazelib_high_level_cell_selection_callback(count, s, t)}
    ELSE IF strategy = "always_count"
    THEN {UserSelection(count, count, s)}
    ELSE {UserSelection(count, i, s) : i \in 0..count}

SelectionOf(o) ==
    [invoked |-> o.invoked, count |-> o.count, index |-> o.index,
     draw |-> o.draw, branch |-> o.branch]

\* The selection o makes the call return 0.
Aborts(o) == o.invoked /\ OutOfRange(o.index, o.count)

StepOf(kind, o, cell, neighbour) ==
    [kind |-> kind, count |-> o.count, cell_index |-> o.index, cell |-> cell,
     neighbour |-> neighbour]

\* "return 0": the strategy returned an index out of range.
Abort(c, o) ==
    /\ pc' = [pc EXCEPT ![c] = "done"]
    /\ ret' = [ret EXCEPT ![c] = 0]
    /\ prng' = [prng EXCEPT ![c] = o.prng]
    /\ hist' = [hist EXCEPT ![c].sel = SelectionOf(o),
                            ![c].step = StepOf("abort", o, 0, 0)]
    /\ UNCHANGED <<output, cells_size, directions>>

\* The passage from current_cell in the direction dir to the neighbour
\* new_cell_index is carved and the neighbour appended.
CarveTo(c, o, f, current_cell, dir, opposite_direction, new_cell_index) ==
    /\ output' = [output EXCEPT ![c] =
            mazelib_assign_cell(
                Carve(output[c], f.grid, current_cell, new_cell_index, dir,
                      opposite_direction),
                f.cells, f.cell_bytes, cells_size[c], new_cell_index)]
    /\ cells_size' = [cells_size EXCEPT ![c] = @ + 1]
    /\ hist' = [hist EXCEPT ![c].sel = SelectionOf(o),
                            ![c].step = StepOf("carve", o, current_cell, new_cell_index),
                            ![c].carved = @ + 1,
                            ![c].inserted = Append(@, new_cell_index)]

CarveAt(c, o, f, current_cell, dir, p) ==
    CarveTo(c, o, f, current_cell, dir, p.opposite,
            mazelib_get_cell_index(p.x, p.y, args[c].height))

\* The selected entry is removed from the frontier.
Remove(c, o, f, current_cell) ==
    /\ output' = [output EXCEPT ![c] =
            RemoveCell(output[c], f.cells, f.cell_bytes, o.index, cells_size[c])]
    /\ cells_size' = [cells_size EXCEPT ![c] = @ - 1]
    /\ hist' = [hist EXCEPT ![c].sel = SelectionOf(o),
                            ![c].step = StepOf("remove", o, current_cell, 0),
                            ![c].removed = @ + 1,
                            ![c].deleted = Append(@, current_cell)]

\* The end of the iteration, found being the position of the first
\* direction that leads to an unvisited neighbour (0 when there is none).
Conclude(c, o, f, current_cell, x, y, sh, found) ==
    /\ IF found # 0
       THEN CarveAt(c, o, f, current_cell, sh.directions[found],
                    Probe(sh.directions[found], x, y, args[c].width, args[c].height))
       ELSE Remove(c, o, f, current_cell)
    /\ directions' = [directions EXCEPT ![c] = sh.directions]
    /\ prng' = [prng EXCEPT ![c] = sh.prng]
    /\ UNCHANGED <<pc, ret>>

\* The scan of the shuffled directions sh.directions from the cell (x, y).
Scan(c, o, f, current_cell, x, y, sh) ==
    Conclude(c, o, f, current_cell, x, y, sh,
             FirstUnvisited(output[c], f.grid, sh.directions, x, y,
                            args[c].width, args[c].height, 1))

\* The iteration for the current cell: its coordinates, then the shuffle.
Visit(c, o, f, current_cell) ==
    Scan(c, o, f, current_cell,
         current_cell \div args[c].height, current_cell % args[c].height,
         Shuffle(directions[c], o.prng))

\* The iteration for the selection o.
IterateWith(c, o, f) ==
    IF Aborts(o)
    THEN Abort(c, o)
    ELSE Visit(c, o, f, ReadCell(output[c], f.cells, f.cell_bytes, o.index))

\* One iteration of the traversal loop.  The call returns 0 when the
\* strategy returns an index out of range; else the iteration either finds
\* an unvisited neighbour of the selected cell, carves the passage and
\* appends the neighbour to the frontier, or removes the selected entry.
Iterate(c) ==
    /\ pc[c] = "loop"
    /\ cells_size[c] # 0
    /\ \E o \in Selections(args[c].strategy, cells_size[c], prng[c], threshold[c]) :
            IterateWith(c, o, frame[c])
    /\ UNCHANGED <<args, threshold, frame>>

\* The end of the loop in the compact format: the grid is the result.
ReturnCompact(c) ==
    /\ pc[c] = "loop"
    /\ cells_size[c] = 0
    /\ args[c].blockwise = 0
    /\ ret' = [ret EXCEPT ![c] = frame[c].result]
    /\ pc' = [pc EXCEPT ![c] = "done"]
    /\ UNCHANGED <<args, prng, threshold, output, frame, cells_size, directions, hist>>

\* The end of the loop in the blockwise format: the wall grid is written
\* over the start of the buffer and its size returned.
ExpandBlockwise(c) ==
    /\ pc[c] = "loop"
    /\ cells_size[c] = 0
    /\ args[c].blockwise # 0
    /\ output' = [output EXCEPT ![c] =
                    Expand(output[c], frame[c].grid, args[c].width, args[c].height)]
    /\ frame' = [frame EXCEPT ![c].result = BlockwiseResult(args[c].width, args[c].height)]
    /\ ret' = [ret EXCEPT ![c] = BlockwiseResult(args[c].width, args[c].height)]
    /\ pc' = [pc EXCEPT ![c] = "done"]
    /\ UNCHANGED <<args, prng, threshold, cells_size, directions, hist>>

Step(c) ==
    \/ mazelib_generate(c)
    \/ Enter(c)
    \/ Start(c)
    \/ StartUndefined(c)
    \/ Iterate(c)
    \/ ReturnCompact(c)
    \/ ExpandBlockwise(c)

Next == \E c \in Calls : Step(c)

Spec == Init /\ [][Next]_vars

(***************************************************************************)
(* Two runs of mazelib_generate, one after the other, with the same        *)
(* arguments and buffers that are both large enough but differ in size or  *)
(* in what they hold before the call.  The second call waits for the first *)
(* to end.                                                                 *)
(***************************************************************************)

\* The buffer holds at least the required size.
Adequate(a) ==
    a.has_output /\ a.output_size >= RequiredSize(a.width, a.height, a.blockwise)

\* The arguments of the second run: those of a, with another buffer b.
WithBuffer(a, b) == [a EXCEPT !.output_size = b.output_size, !.garbage = b.garbage]

InitTwice ==
    \E a \in GenerateInputs :
        /\ Adequate(a) /\ a.garbage = 0
        /\ \E b \in Buffers(RequiredSize(a.width, a.height, a.blockwise)) :
            /\ Adequate(WithBuffer(a, b)) /\ b.garbage # 0
            /\ pc = [c \in Calls |-> IF c = 1 THEN "generate" ELSE "waiting"]
            /\ InitState([c \in Calls |-> IF c = 1 THEN a ELSE WithBuffer(a, b)])

\* The call has ended: it returned, or the process was killed.
Ended(c) == pc[c] \in {"done", "crashed"}

\* The caller makes the second call once the first has ended.
SecondCall ==
    /\ pc[2] = "waiting"
    /\ Ended(1)
    /\ pc' = [pc EXCEPT ![2] = "generate"]
    /\ UNCHANGED <<args, prng, threshold, output, frame, cells_size, directions, ret, hist>>

NextTwice == Next \/ SecondCall

SpecTwice == InitTwice /\ [][NextTwice]_vars

(***************************************************************************)
(* Two calls of mazelib_generate at once, each with its own buffer and its *)
(* own generator (mazelib_generate keeps it on its stack), their steps     *)
(* interleaved in any order; once both have ended the first call is made   *)
(* again, alone, in a larger buffer that holds other bytes.  A step is one *)
(* of the actions above: each reads and writes the state of its own call   *)
(* only, so finer interleavings add no behaviour.                          *)
(***************************************************************************)

\* The calls made at once: the largest grid or one without rows, both
\* formats, each in a buffer of exactly the required size.
ConcurrentInputs(garbage) ==
    {a \in GenerateInputs :
        /\ a.width = MaxWidth /\ a.height \in {0, MaxHeight}
        /\ a.threshold = 50 /\ a.has_output /\ a.garbage = garbage
        /\ a.output_size = RequiredSize(a.width, a.height, a.blockwise)}

InitConcurrent ==
    \E a \in ConcurrentInputs(0), b \in ConcurrentInputs(255) :
        InitWith([c \in Calls |-> IF c = 1 THEN a ELSE b])

\* The call in slot 2 is the one made alone.
Alone == args[2].output_size > RequiredSize(args[2].width, args[2].height, args[2].blockwise)

\* A trap (the division by zero of line 322) kills the process, and with it
\* every call that runs in it.
Killed(c) ==
    /\ ~Alone
    /\ pc[c] \in {"generate", "entry", "start", "loop"}
    /\ \E d \in Calls \ {c} : pc[d] = "crashed"
    /\ pc' = [pc EXCEPT ![c] = "crashed"]
    /\ UNCHANGED <<args, prng, threshold, output, frame, cells_size, directions, ret, hist>>

\* The arguments of the first call, with a larger buffer that holds other
\* bytes.
AloneArguments(a) == [a EXCEPT !.output_size = @ + MaxSlack, !.garbage = 170]

AloneWith(a) ==
    /\ args' = [args EXCEPT ![2] = a]
    /\ pc' = [pc EXCEPT ![2] = InitCall(a).pc]
    /\ prng' = [prng EXCEPT ![2] = InitCall(a).prng]
    /\ threshold' = [threshold EXCEPT ![2] = a.threshold]
    /\ output' = [output EXCEPT ![2] = InitCall(a).output]
    /\ frame' = [frame EXCEPT ![2] = NoFrame]
    /\ cells_size' = [cells_size EXCEPT ![2] = 0]
    /\ directions' = [directions EXCEPT ![2] = <<0, 0, 0, 0>>]
    /\ ret' = [ret EXCEPT ![2] = 0]
    /\ hist' = [hist EXCEPT ![2] = NoHist]

\* Once both calls have ended the caller makes the first call again, with
\* nothing else running.
RunAlone ==
    /\ ~Alone
    /\ Ended(1) /\ Ended(2)
    /\ AloneWith(AloneArguments(args[1]))

NextConcurrent ==
    \/ Next
    \/ \E c \in Calls : Killed(c)
    \/ RunAlone

SpecConcurrent == InitConcurrent /\ [][NextConcurrent]_vars

(***************************************************************************)
(* Properties                                                              *)
(***************************************************************************)

Made(c) == args[c].api # "none"

\* The grid has at least one cell.
HasCells(c) == args[c].width >= 1 /\ args[c].height >= 1

CellCount(c) == args[c].width * args[c].height

\* The call returned a nonzero value.
Succeeded(c) == pc[c] = "done" /\ ret[c] # 0

\* The pairs of adjacent cells of a width x height grid: a and b are their
\* indices, d the direction from a to b and o the opposite direction.
Neighbours(width, height) ==
    {[a |-> (x * height) + y, b |-> ((x + 1) * height) + y, d |-> 2, o |-> 1] :
        x \in 0..(width - 2), y \in 0..(height - 1)}
    \cup
    {[a |-> (x * height) + y, b |-> (x * height) + y + 1, d |-> 8, o |-> 4] :
        x \in 0..(width - 1), y \in 0..(height - 2)}

\* The masks at offset grid of buf join the two cells of n.
Joined(buf, grid, n) ==
    HasBit(Rd(buf, grid + n.a), n.d) \/ HasBit(Rd(buf, grid + n.b), n.o)

\* The edges of the undirected graph the direction bits describe.
Passages(buf, grid, width, height) ==
    {n \in Neighbours(width, height) : Joined(buf, grid, n)}

RECURSIVE Grow(_, _)
\* The cells connected to a cell of reached by the edges of passages.
Grow(reached, passages) ==
    IF \E n \in passages : (n.a \in reached) # (n.b \in reached)
    THEN Grow(reached \cup {n.a : n \in {m \in passages : m.b \in reached}}
                      \cup {n.b : n \in {m \in passages : m.a \in reached}},
              passages)
    ELSE reached

IsTree(passages, cell_count) ==
    /\ Grow({0}, passages) = 0..(cell_count - 1)
    /\ Cardinality(passages) = cell_count - 1

SpanningTree(buf, grid, width, height) ==
    IsTree(Passages(buf, grid, width, height), width * height)

\* C1: for width, height >= 1, whatever the generator draws and whatever
\* in-range indices the strategy returns, a compact run that returns a
\* nonzero value leaves at offset 0 a grid whose direction bits, read as an
\* undirected graph over all width * height cells, are connected and have
\* exactly width * height - 1 edges.
CompactResultIsSpanningTree ==
    \A c \in Calls :
        (Made(c) /\ HasCells(c) /\ args[c].blockwise = 0 /\ Succeeded(c))
            => SpanningTree(output[c], 0, args[c].width, args[c].height)

\* A compact run on a 2 x 2 grid or larger, driven by the caller's own
\* strategy, has returned its grid after carving and removing.
CompactResultReached ==
    /\ Succeeded(1) /\ args[1].blockwise = 0 /\ args[1].strategy = "free"
    /\ CellCount(1) >= 4 /\ args[1].garbage # 0
    /\ hist[1].carved = CellCount(1) - 1 /\ hist[1].removed = CellCount(1)

\* The mask of the cell (x, y) in the grid of call c.
MaskAt(c, x, y) ==
    Rd(output[c], frame[c].grid + (x * args[c].height) + y)

\* No bit of the mask of (x, y) points outside the grid, or is no direction.
PointsInside(mask, x, y, width, height) ==
    /\ mask < 16
    /\ x = 0 => ~HasBit(mask, 1)
    /\ x = width - 1 => ~HasBit(mask, 2)
    /\ y = 0 => ~HasBit(mask, 4)
    /\ y = height - 1 => ~HasBit(mask, 8)

\* The two masks of every pair of adjacent cells agree on their passage.
Symmetric(buf, grid, width, height) ==
    \A n \in Neighbours(width, height) :
        HasBit(Rd(buf, grid + n.a), n.d) <=> HasBit(Rd(buf, grid + n.b), n.o)

\* C2: in every state of the traversal, after the start cell is inserted
\* and after each loop iteration, cell A's mask has the direction towards
\* its neighbour B exactly when B's mask has the opposite direction, and
\* no mask has a bit that points outside the grid.
ConnectivityIsSymmetric ==
    \A c \in Calls :
        pc[c] = "loop" =>
            /\ Symmetric(output[c], frame[c].grid, args[c].width, args[c].height)
            /\ \A x \in 0..(args[c].width - 1), y \in 0..(args[c].height - 1) :
                    PointsInside(MaskAt(c, x, y), x, y, args[c].width, args[c].height)

\* The traversal stands after an iteration that carved its third passage
\* in a grid that did not start out zeroed.
SymmetricCarveReached ==
    /\ pc[1] = "loop" /\ hist[1].step.kind = "carve" /\ hist[1].carved >= 3
    /\ args[1].garbage # 0

\* C3: with width = 0 or height = 0 a call returns 0, whatever the buffer,
\* its size, the generator and the strategy: the process is not killed, no
\* traversal state is entered and the value returned is 0.
ZeroDimensionReturnsZero ==
    \A c \in Calls :
        (Made(c) /\ (args[c].width = 0 \/ args[c].height = 0))
            => /\ pc[c] \notin {"crashed", "loop"}
               /\ pc[c] = "done" => ret[c] = 0

\* One of the four arguments mazelib_generate_extended checks is missing
\* or too small.
BadArguments(a) ==
    \/ ~a.has_output
    \/ a.output_size < RequiredSize(a.width, a.height, a.blockwise)
    \/ ~a.has_prng
    \/ a.strategy = "null"

\* C4: for width, height >= 1, a call without an output buffer, with
\* output_size below the required buffer size, without a generator or
\* without a strategy returns 0 and takes no traversal step: the buffer
\* keeps its bytes, the frontier stays empty and no iteration runs.
BadArgumentsReturnZero ==
    \A c \in Calls :
        (Made(c) /\ HasCells(c) /\ BadArguments(args[c]))
            => /\ pc[c] \in {"generate", "entry", "done"}
               /\ pc[c] = "done" => ret[c] = 0
               /\ cells_size[c] = 0
               /\ hist[c] = NoHist
               /\ \A i \in 1..Len(output[c]) : output[c][i] = args[c].garbage

\* A call with a generator and a strategy, and a buffer one byte short, has
\* returned 0.
UndersizedRejected ==
    /\ pc[1] = "done" /\ ret[1] = 0 /\ HasCells(1)
    /\ args[1].has_output /\ args[1].has_prng /\ args[1].strategy = "always_count"
    /\ args[1].output_size =
            RequiredSize(args[1].width, args[1].height, args[1].blockwise) - 1

\* A call of mazelib_generate_extended with valid arguments and the
\* strategy that always returns count.
AlwaysCount(c) ==
    /\ args[c].api = "extended" /\ args[c].strategy = "always_count"
    /\ HasCells(c) /\ ~BadArguments(args[c])

\* C5 as stated: for every width, height >= 1 (1 x 1 included), in either
\* format, mazelib_generate_extended with a large enough buffer and a
\* strategy that always returns count returns 0.
AlwaysCountReturnsZero ==
    \A c \in Calls : (AlwaysCount(c) /\ pc[c] = "done") => ret[c] = 0

\* C5 as amended: with a strategy that always returns count the call
\* returns 0 when the grid has at least two cells; on the 1 x 1 grid the
\* strategy is never invoked and the call returns the size of its result.
AlwaysCountReturnsZeroFromTwoCells ==
    \A c \in Calls :
        (AlwaysCount(c) /\ pc[c] = "done")
            => IF CellCount(c) >= 2
               THEN ret[c] = 0
               ELSE ret[c] = (IF args[c].blockwise # 0 THEN 9 ELSE 1)
                    /\ ~hist[c].sel.invoked

\* The strategy returned count at its first invocation and the call
\* returned 0.
AlwaysCountAborted ==
    /\ AlwaysCount(1) /\ pc[1] = "done" /\ ret[1] = 0
    /\ hist[1].step.kind = "abort" /\ hist[1].sel.index = hist[1].sel.count
    /\ hist[1].carved = 1

\* C6: with random_threshold_percent = 100 every invocation of the default
\* strategy takes the branch that returns a random index, whatever the
\* value drawn from [0,100]; it never takes the branch that returns
\* count - 1.
Threshold100AlwaysRandom ==
    \A c \in Calls :
        (args[c].api = "generate" /\ args[c].threshold = 100 /\ hist[c].sel.invoked)
            => hist[c].sel.branch = "random"

\* C7: with random_threshold_percent = 0 every invocation of the default
\* strategy returns count - 1, so that every iteration of mazelib_generate
\* works on the last entry of the frontier.
ThresholdZeroSelectsLast ==
    \A c \in Calls :
        (args[c].api = "generate" /\ args[c].threshold = 0)
            => /\ hist[c].sel.invoked =>
                    /\ hist[c].sel.index = hist[c].sel.count - 1
                    /\ hist[c].sel.count >= 2
               /\ hist[c].step.kind # "none" =>
                    hist[c].step.cell_index = hist[c].step.count - 1

\* With threshold 0 the strategy was invoked on a frontier of three
\* entries or more.
LastSelectedReached ==
    /\ args[1].api = "generate" /\ args[1].threshold = 0
    /\ hist[1].sel.invoked /\ hist[1].sel.count >= 3
    /\ hist[1].sel.index = hist[1].sel.count - 1

\* The first n bytes of the two buffers are the same.
SameBytes(n) == \A i \in 1..n : output[1][i] = output[2][i]

\* C8: two runs of mazelib_generate with the same width, height, seed,
\* random_threshold_percent and blockwise, each with a large enough buffer,
\* end the same way, return the same value and leave the same bytes in the
\* result region, whatever the buffers held before.
RunsAgree ==
    (Ended(1) /\ Ended(2))
        => /\ pc[1] = pc[2]
           /\ ret[1] = ret[2]
           /\ pc[1] = "done" => SameBytes(ret[1])

\* The same for grids of at least one cell, where no statement of the two
\* runs has undefined behaviour.
RunsAgreeOnMazes ==
    (HasCells(1) /\ Ended(1) /\ Ended(2))
        => /\ pc[1] = "done" /\ pc[2] = "done"
           /\ ret[1] = ret[2] /\ ret[1] # 0
           /\ SameBytes(ret[1])

\* The byte at column x, row y of the wall grid of call c.
WallAt(c, x, y) == Rd(output[c], (x * ((2 * args[c].height) + 1)) + y)

\* The offsets of the zero bytes among the first n bytes of buf.
Zeros(buf, n) == {i \in 1..n : buf[i] = 0}

\* C9: after a blockwise run of a width x height maze that returned a
\* nonzero value, in the (2 * width + 1) x (2 * height + 1) wall grid at
\* offset 0 every border byte is 1, every byte at (2x + 1, 2y + 1) is 0,
\* every byte is 0 or 1, and exactly (width * height) +
\* (width * height - 1) bytes are 0.
BlockwiseResultWellFormed ==
    \A c \in Calls :
        (Made(c) /\ HasCells(c) /\ args[c].blockwise # 0 /\ Succeeded(c))
            => /\ \A x \in 0..(2 * args[c].width), y \in 0..(2 * args[c].height) :
                    /\ WallAt(c, x, y) \in {0, 1}
                    /\ (x = 0 \/ x = 2 * args[c].width \/ y = 0 \/ y = 2 * args[c].height)
                            => WallAt(c, x, y) = 1
                    /\ (x % 2 = 1 /\ y % 2 = 1) => WallAt(c, x, y) = 0
               /\ Cardinality(Zeros(output[c],
                        ((2 * args[c].width) + 1) * ((2 * args[c].height) + 1)))
                    = CellCount(c) + (CellCount(c) - 1)

\* A blockwise run on a grid of four cells or more has returned, in a
\* buffer that held other bytes before.
BlockwiseResultReached ==
    /\ Succeeded(1) /\ args[1].blockwise # 0 /\ CellCount(1) >= 4
    /\ args[1].garbage # 0 /\ hist[1].carved = CellCount(1) - 1

\* The bytes a result of the format may hold.
ResultBytes(blockwise) == IF blockwise # 0 THEN {0, 1} ELSE 0..15

\* C10: a call that succeeds returns exactly width * height in the compact
\* format and (2 * width + 1) * (2 * height + 1) in the blockwise format,
\* the result lies in the buffer from offset 0 up to that many bytes, and
\* for width, height >= 1 a call that passes the argument checks and whose
\* strategy stays in range returns a nonzero value.
ReturnsResultSize ==
    \A c \in Calls :
        (Made(c) /\ HasCells(c) /\ pc[c] = "done")
            => /\ ret[c] # 0 =>
                    /\ ret[c] = (IF args[c].blockwise # 0
                                 THEN ((2 * args[c].width) + 1) * ((2 * args[c].height) + 1)
                                 ELSE args[c].width * args[c].height)
                    /\ ret[c] <= Len(output[c])
                    /\ \A i \in 1..ret[c] : output[c][i] \in ResultBytes(args[c].blockwise)
                    /\ args[c].blockwise = 0 => frame[c].grid = 0
               /\ (~BadArguments(args[c]) /\ hist[c].step.kind # "abort") => ret[c] # 0

\* A call of mazelib_generate_extended on a grid of two cells or more has
\* returned the size of its result, in a buffer larger than required that
\* held other bytes before.
ResultSizeReached ==
    /\ Succeeded(1) /\ args[1].api = "extended" /\ CellCount(1) >= 2
    /\ args[1].output_size >
            RequiredSize(args[1].width, args[1].height, args[1].blockwise)
    /\ args[1].garbage # 0

(***************************************************************************)
(* Calls of mazelib_get_required_buffer_size alone, over dimensions on     *)
(* both sides of every limit the sizing compares the cell count with.      *)
(***************************************************************************)

\* Widths and heights whose products lie on both sides of 255, 65535 and
\* 4294967295 (127 * 2, 15 * 17, 2 * 32767, 255 * 257, 2 * 2147483647,
\* 65535 * 65537, 65536 * 65536), and beyond 2^61 cells.
BoundaryDimensions ==
    {15, 17, 127, 255, 257, 32767, 65535, 65536, 65537, 2147483647}

SizingInputs ==
    {[NoCall EXCEPT !.api = "size", !.width = w, !.height = h, !.blockwise = bw] :
        w \in (0..MaxWidth) \cup BoundaryDimensions,
        h \in (0..MaxHeight) \cup BoundaryDimensions,
        bw \in {0, 1}}

InitSizing ==
    \E a \in SizingInputs :
        /\ pc = [c \in Calls |-> IF c = 1 THEN "size" ELSE "idle"]
        /\ InitState([c \in Calls |-> IF c = 1 THEN a ELSE NoCall])

\* One call of mazelib_get_required_buffer_size: ret holds the 64 bit word
\* it returns, frame the entry width it computed on the way.
SizeQuery(c) ==
    /\ pc[c] = "size"
    /\ ret' = [ret EXCEPT ![c] =
            mazelib_get_required_buffer_size(args[c].width, args[c].height,
                                             args[c].blockwise)]
    /\ frame' = [frame EXCEPT ![c].cell_bytes =
            mazelib_get_cell_bytes_required_for_dimensions(args[c].width, args[c].height)]
    /\ pc' = [pc EXCEPT ![c] = "done"]
    /\ UNCHANGED <<args, prng, threshold, output, cells_size, directions, hist>>

NextSizing == \E c \in Calls : SizeQuery(c)

SpecSizing == InitSizing /\ [][NextSizing]_vars

(***************************************************************************)
(* Calls of mazelib_generate over the same dimensions and over two whose   *)
(* cell count, 2^61 + 1653, makes the 64 bit size wrap around: the caller  *)
(* asks for the required size, allocates exactly that many bytes and makes *)
(* the call.  The buffer is known by its size only; what the traversal     *)
(* does in a buffer that holds its grid is what Spec describes.            *)
(***************************************************************************)

\* 1517889155 * 1519111591 = 2^61 + 1653.
OverflowDimensions == {1517889155, 1519111591}

LargeInputs ==
    {[NoCall EXCEPT !.api = "generate", !.width = w, !.height = h, !.blockwise = bw,
                    !.has_output = TRUE, !.has_prng = TRUE, !.strategy = "default"] :
        w \in (1..MaxWidth) \cup BoundaryDimensions \cup OverflowDimensions,
        h \in (1..MaxHeight) \cup BoundaryDimensions \cup OverflowDimensions,
        bw \in {0, 1}}

InitLarge ==
    \E a \in LargeInputs :
        /\ pc = [c \in Calls |-> IF c = 1 THEN "size" ELSE "idle"]
        /\ InitState([c \in Calls |-> IF c = 1 THEN a ELSE NoCall])

\* result = width * height, the bytes of the grid, in 64 bits.
GridBytes(width, height) == Mul(FromNat(width, WordBytes), FromNat(height, WordBytes))

\* The grid does not fit in the required size: the loop that clears it
\* (lines 417-420) writes bytes the buffer does not have.
Overruns(width, height, required_size) == Gt(GridBytes(width, height), required_size)

\* mazelib_generate in a buffer of exactly the required size, up to the
\* loop that clears the grid.  No argument check rejects the call; when the
\* grid does not fit the loop writes outside the buffer, which is undefined:
\* the process is killed, or the call goes on and returns whatever it then
\* computes.
GenerateLarge(c) ==
    /\ pc[c] = "done"
    /\ args[c].api = "generate"
    /\ IF Overruns(args[c].width, args[c].height, ret[c])
       THEN \/ /\ pc' = [pc EXCEPT ![c] = "crashed"]
               /\ UNCHANGED ret
            \/ \E v \in UndefinedReturns :
                    /\ pc' = [pc EXCEPT ![c] = "returned"]
                    /\ ret' = [ret EXCEPT ![c] = v]
       ELSE /\ pc' = [pc EXCEPT ![c] = "start"]
            /\ UNCHANGED ret
    /\ UNCHANGED <<args, prng, threshold, output, frame, cells_size, directions, hist>>

NextLarge == \E c \in Calls : SizeQuery(c) \/ GenerateLarge(c)

SpecLarge == InitLarge /\ [][NextLarge]_vars

(***************************************************************************)
(* Properties of the sizing                                                *)
(***************************************************************************)

\* Twice the bytes of a 64 bit word: products and sums of three 32 bit
\* factors are exact in words of this width.
WideBytes == 2 * WordBytes

Wide(v) == FromNat(v, WideBytes)

\* A word, extended with zero bytes to the wide width.
Widen(a) == Tuple([j \in 1..WideBytes |-> ByteAt(a, j)])

\* width * height * cell_bytes, exactly.
FrontierBytes(width, height, cell_bytes) ==
    Mul(Mul(Wide(width), Wide(height)), Wide(cell_bytes))

\* The size the formula gives, exactly: the frontier, plus one byte per
\* cell (compact) or the (2 * width + 1) * (2 * height + 1) wall grid.
FormulaSize(width, height, cell_bytes, blockwise) ==
    IF blockwise # 0
    THEN Add(FrontierBytes(width, height, cell_bytes),
             Mul(Add(Mul(Wide(width), Wide(2)), Wide(1)),
                 Add(Mul(Wide(height), Wide(2)), Wide(1))))
    ELSE Add(FrontierBytes(width, height, cell_bytes), Mul(Wide(width), Wide(height)))

\* The wide word is below 2^64.
Fits(a) == \A j \in (WordBytes + 1)..WideBytes : a[j] = 0

SizeReturned(c) == args[c].api = "size" /\ pc[c] = "done"

\* C11: mazelib_get_required_buffer_size(w, h, blockwise) is 0 when w = 0
\* or h = 0, and for all w, h >= 1 it is w * h * (1 + cell_index_width)
\* in the compact format and w * h * cell_index_width +
\* (2w + 1) * (2h + 1) in the blockwise format.
RequiredSizeIsFormula ==
    \A c \in Calls :
        SizeReturned(c) =>
            Widen(ret[c]) =
                (IF args[c].width = 0 \/ args[c].height = 0
                 THEN Wide(0)
                 ELSE FormulaSize(args[c].width, args[c].height,
                                  frame[c].cell_bytes, args[c].blockwise))

\* The same for the dimensions whose formula is below 2^64, the values a
\* 64 bit return value can hold.
RequiredSizeIsFormulaWhenItFits ==
    \A c \in Calls :
        (SizeReturned(c) /\ HasCells(c)
            /\ Fits(FormulaSize(args[c].width, args[c].height,
                                frame[c].cell_bytes, args[c].blockwise)))
            => Widen(ret[c]) = FormulaSize(args[c].width, args[c].height,
                                           frame[c].cell_bytes, args[c].blockwise)

\* width * height < limit + 1, for height >= 1, without forming the product.
CellsAtMost(width, height, limit) == width <= limit \div height

\* width * height < 4294967295, for width, height in 1..2147483647:
\* 4294967294 is 2 * 2147483647.
CellsBelowUint32Max(width, height) ==
    \/ height = 1
    \/ width <= (2 * (2147483647 \div height)) + ((2 * (2147483647 % height)) \div height)

\* C12: the entry width is 1 when width * height < 255, 2 when
\* 255 <= width * height < 65535, 4 when 65535 <= width * height <
\* 4294967295 and 8 otherwise; a grid of exactly 255 cells has entries of 2
\* bytes.
CellBytesByLimits ==
    \A c \in Calls :
        (SizeReturned(c) /\ HasCells(c)) =>
            frame[c].cell_bytes =
                (IF CellsAtMost(args[c].width, args[c].height, 254) THEN 1
                 ELSE IF CellsAtMost(args[c].width, args[c].height, 65534) THEN 2
                 ELSE IF CellsBelowUint32Max(args[c].width, args[c].height) THEN 4
                 ELSE 8)

\* The size of a grid of exactly 255 cells was asked for, and its entries
\* have 2 bytes.
Cells255Sized ==
    /\ SizeReturned(1) /\ args[1].width = 15 /\ args[1].height = 17
    /\ frame[1].cell_bytes = 2

(***************************************************************************)
(* The loop of mazelib_prng_next_in_range on words of one byte: the same   *)
(* statements at width 8, where every word the generator can return and    *)
(* every rejection can be visited.                                         *)
(***************************************************************************)

\* The largest of the consecutive ranges 1, 2, ...
MaxRange == 12

\* The words of one byte.
DrawWords == {<<b>> : b \in 0..255}

\* The ranges: the small ones, the 101 of the threshold draw, a power of
\* two and the largest range below the number of words.
Ranges == (1..MaxRange) \cup {101, 128, 255}

\* The locals of mazelib_prng_next_in_range before its first draw.
RangeFrame(range) == [range |-> range, x |-> <<>>, r |-> 0]

InitRange ==
    \E range \in Ranges :
        /\ args = [c \in Calls |-> IF c = 1 THEN [NoCall EXCEPT !.api = "range"] ELSE NoCall]
        /\ pc = [c \in Calls |-> IF c = 1 THEN "range" ELSE "idle"]
        /\ prng = [c \in Calls |-> <<ZeroWord, ZeroWord, ZeroWord, ZeroWord>>]
        /\ threshold = [c \in Calls |-> 0]
        /\ output = [c \in Calls |-> <<>>]
        /\ frame = [c \in Calls |-> IF c = 1 THEN RangeFrame(range) ELSE NoFrame]
        /\ cells_size = [c \in Calls |-> 0]
        /\ directions = [c \in Calls |-> <<0, 0, 0, 0>>]
        /\ ret = [c \in Calls |-> 0]
        /\ hist = [c \in Calls |-> NoHist]

\* One round of the do-while loop with the word x drawn: r = x % range,
\* then either another round or the return of r.
RangeRound(c, x, range) ==
    /\ frame' = [frame EXCEPT ![c] = [range |-> range, x |-> x, r |-> Mod(x, range)]]
    /\ IF NeedsResample(x, range)
       THEN UNCHANGED <<pc, ret>>
       ELSE /\ pc' = [pc EXCEPT ![c] = "done"]
            /\ ret' = [ret EXCEPT ![c] = Mod(x, range)]

\* A round of the loop, for any word the generator may return.
DrawInRange(c) ==
    /\ pc[c] = "range"
    /\ \E x \in DrawWords : RangeRound(c, x, frame[c].range)
    /\ UNCHANGED <<args, prng, threshold, output, cells_size, directions, hist>>

NextRange == \E c \in Calls : DrawInRange(c)

SpecRange == InitRange /\ [][NextRange]_vars

(***************************************************************************)
(* Properties of the draw in a range                                       *)
(***************************************************************************)

\* The number of words of the width.
WordCount == Cardinality(DrawWords)

\* The words that are kept and yield the residue r.
Accepted(range, r) ==
    {x \in DrawWords : ~NeedsResample(x, range) /\ Mod(x, range) = r}

\* Every residue is yielded by the same number of words: all the complete
\* buckets of range consecutive words.
Unbiased(range) ==
    \A r \in 0..(range - 1) : Cardinality(Accepted(range, r)) = WordCount \div range

\* The word lies in the last, incomplete bucket.
InFinalBucket(x, range) == ToNat(x) >= WordCount - (WordCount % range)

\* C13: for every range >= 1 and every word x the generator can return,
\* mazelib_prng_next_in_range returns a value in [0, range); at word width
\* W the words that are kept yield every residue equally often, and a word
\* is drawn again exactly when it lies in the incomplete final bucket.
RangeDrawUnbiased ==
    \A c \in Calls :
        args[c].api = "range" =>
            /\ frame[c].x = <<>> => Unbiased(frame[c].range)
            /\ frame[c].x # <<>> =>
                    ((pc[c] = "range") <=> InFinalBucket(frame[c].x, frame[c].range))
            /\ pc[c] = "done" =>
                    /\ ret[c] \in 0..(frame[c].range - 1)
                    /\ ret[c] = ToNat(frame[c].x) % frame[c].range

\* A word of the incomplete final bucket of range 101 was drawn, and the
\* loop goes on.
RangeDrawRejected ==
    /\ args[1].api = "range" /\ pc[1] = "range" /\ frame[1].range = 101
    /\ frame[1].x # <<>> /\ ToNat(frame[1].x) >= 202

(***************************************************************************)
(* Termination of the traversal.  A call runs on one thread that executes  *)
(* statement after statement, so a step that is possible is taken.         *)
(***************************************************************************)

\* A call is sequential code that keeps executing until it returns (or
\* the process is killed): some call has a step left to take.
Running == \E c \in Calls : pc[c] \in {"generate", "entry", "start", "loop"}

\* Every step of a call moves its position or adds to its history.
Advance == (pc' # pc) \/ (hist' # hist)

\* Weak fairness of Next, with its enabling condition written out: a call
\* that has a step left to take takes it.
SpecFair == Init /\ [][Next]_vars /\ ([]<>~Running \/ []<><<Advance>>_vars)

\* The iterations so far: each carves one passage or removes one entry.
Iterations(c) == hist[c].carved + hist[c].removed

\* While the loop runs at most width * height - 1 passages have been
\* carved and fewer than width * height entries removed, and a call that
\* succeeds has run exactly (width * height - 1) + (width * height)
\* iterations.
IterationCounts ==
    \A c \in Calls :
        /\ pc[c] = "loop" =>
                /\ hist[c].carved <= CellCount(c) - 1
                /\ hist[c].removed <= CellCount(c)
                /\ (cells_size[c] # 0) => hist[c].removed < CellCount(c)
        /\ (HasCells(c) /\ Succeeded(c)) =>
                /\ hist[c].carved = CellCount(c) - 1
                /\ hist[c].removed = CellCount(c)
                /\ Iterations(c) = (2 * CellCount(c)) - 1

\* C14: for width, height >= 1, whatever the generator draws and whatever
\* the strategy returns, the traversal loop ends; when every index the
\* strategy returned was in range it ends with the frontier empty after
\* exactly 2 * width * height - 1 iterations, width * height - 1 that
\* carve and width * height that remove.
TraversalTerminates ==
    /\ []IterationCounts
    /\ \A c \in Calls :
            (pc[c] = "loop") ~>
                (pc[c] = "done" /\ (hist[c].step.kind # "abort" => cells_size[c] = 0))

\* A run on the largest grid has ended after 2 * width * height - 1
\* iterations.
TraversalEnded ==
    /\ Succeeded(1) /\ args[1].width = MaxWidth /\ args[1].height = MaxHeight
    /\ Iterations(1) = (2 * MaxWidth * MaxHeight) - 1 /\ cells_size[1] = 0

\* Everything call c owns.
CallState(c) ==
    <<args[c], pc[c], prng[c], threshold[c], output[c], frame[c],
      cells_size[c], directions[c], ret[c], hist[c]>>

\* C15: two calls that each use their own buffer and generator interleave
\* their steps in any order, and each ends as it does when run alone: the
\* first call and the same call made alone end the same way, return the
\* same value and leave the same result bytes.
InterleavedAsAlone ==
    (Alone /\ Ended(2))
        => /\ pc[1] = pc[2]
           /\ ret[1] = ret[2]
           /\ pc[1] = "done" => SameBytes(ret[1])

\* The same for a call on a grid of at least one cell, when no other call
\* of the process ran into the division by zero.
InterleavedAsAloneUnlessKilled ==
    (Alone /\ Ended(2) /\ HasCells(1) /\ pc[1] # "crashed")
        => /\ pc[1] = "done" /\ pc[2] = "done"
           /\ ret[1] = ret[2] /\ ret[1] # 0
           /\ SameBytes(ret[1])

\* No step changes what two calls own: a step of one call leaves
\* everything the other call owns as it was.
StepsIsolated ==
    [][\A c \in Calls :
            (CallState(c)' # CallState(c))
                => \A d \in Calls \ {c} : CallState(d)' = CallState(d)]_vars

\* Both calls were in their loops at once and the call made alone has ended
\* with a maze.
InterleavedReached ==
    /\ Alone /\ Succeeded(2) /\ Succeeded(1)
    /\ hist[1].carved = CellCount(1) - 1

\* The frontier of call c: the cells_size entries of the cells array.
Frontier(c) ==
    [i \in 1..cells_size[c] |->
        ReadCell(output[c], frame[c].cells, frame[c].cell_bytes, i - 1)]

NoRepeats(q) == \A i, j \in 1..Len(q) : q[i] = q[j] => i = j

\* C16: while the loop runs the frontier holds between 0 and
\* width * height entries, every entry is the index of a cell of the grid
\* (less than width * height), and no index is in the frontier twice.
FrontierWellFormed ==
    \A c \in Calls :
        pc[c] = "loop" =>
            /\ cells_size[c] >= 0 /\ cells_size[c] <= CellCount(c)
            /\ \A i \in 1..cells_size[c] :
                    Frontier(c)[i] >= 0 /\ Frontier(c)[i] < CellCount(c)
            /\ NoRepeats(Frontier(c))

\* Every cell of a grid of at least four cells is in the frontier at once.
FrontierFull ==
    /\ pc[1] = "loop" /\ CellCount(1) >= 4 /\ cells_size[1] = CellCount(1)
    /\ hist[1].removed = 0

\* The elements of the sequence q.
Range(q) == {q[i] : i \in 1..Len(q)}

\* The cell indices of the grid of call c.
Cells(c) == 0..(CellCount(c) - 1)

\* C17: no cell is appended to the frontier twice or removed from it
\* twice, a cell is removed only after it was appended, the frontier holds
\* the cells appended and not yet removed, the frontier is empty only when
\* every cell has been appended (and, on a grid of more than one cell, has
\* a passage), and over a run that succeeds every cell is appended exactly
\* once and removed exactly once.
EachCellOnce ==
    \A c \in Calls :
        /\ NoRepeats(hist[c].inserted) /\ NoRepeats(hist[c].deleted)
        /\ Range(hist[c].deleted) \subseteq Range(hist[c].inserted)
        /\ pc[c] = "loop" =>
                /\ Range(Frontier(c)) = Range(hist[c].inserted) \ Range(hist[c].deleted)
                /\ cells_size[c] = 0 =>
                        /\ Range(hist[c].inserted) = Cells(c)
                        /\ CellCount(c) >= 2 =>
                                \A cell \in Cells(c) :
                                    Rd(output[c], frame[c].grid + cell) # 0
        /\ (HasCells(c) /\ Succeeded(c)) =>
                /\ Range(hist[c].inserted) = Cells(c)
                /\ Range(hist[c].deleted) = Cells(c)

\* A run on the largest grid has succeeded, and removed the cells in an
\* order other than the one in which it appended them.
EachCellOnceReached ==
    /\ Succeeded(1) /\ CellCount(1) = MaxWidth * MaxHeight
    /\ Len(hist[1].inserted) = CellCount(1) /\ Len(hist[1].deleted) = CellCount(1)
    /\ hist[1].deleted # hist[1].inserted

\* The mask of the cell with the given index in the grid of call c.
MaskOf(c, cell) == Rd(output[c], frame[c].grid + cell)

\* The same mask after the step.
MaskAfter(c, cell) == Rd(output'[c], frame'[c].grid + cell)

\* The frontier of call c after the step.
FrontierAfter(c) ==
    [i \in 1..cells_size'[c] |->
        ReadCell(output'[c], frame'[c].cells, frame'[c].cell_bytes, i - 1)]

\* The in-bounds neighbours of the cell of call c: b is the neighbour's
\* index, d the direction to it and o the opposite direction.
NeighboursOf(c, cell) ==
    {[b |-> n.b, d |-> n.d, o |-> n.o] :
        n \in {m \in Neighbours(args[c].width, args[c].height) : m.a = cell}}
    \cup
    {[b |-> n.a, d |-> n.o, o |-> n.d] :
        n \in {m \in Neighbours(args[c].width, args[c].height) : m.b = cell}}

\* The neighbours of the cell that no passage has reached yet.
Fresh(c, cell) == {n \in NeighboursOf(c, cell) : MaskOf(c, n.b) = 0}

\* Call c runs an iteration that does not end the call.
Iterates(c) ==
    /\ pc[c] = "loop" /\ hist'[c] # hist[c] /\ hist'[c].step.kind # "abort"

\* The iteration of call c on the cell: it removes the selected entry
\* exactly when the cell has no fresh neighbour, else it carves one passage
\* to one fresh neighbour and appends that neighbour.
CarvesOrRemoves(c, step, cell) ==
    /\ step.kind \in {"carve", "remove"}
    /\ cell = Frontier(c)[step.cell_index + 1]
    /\ (step.kind = "remove") <=> (Fresh(c, cell) = {})
    /\ step.kind = "remove" => cells_size'[c] = cells_size[c] - 1
    /\ step.kind = "carve" =>
            /\ \E n \in Fresh(c, cell) :
                    /\ n.b = step.neighbour
                    /\ MaskAfter(c, cell) = SetBit(MaskOf(c, cell), n.d)
                    /\ MaskAfter(c, n.b) = n.o
            /\ FrontierAfter(c) = Append(Frontier(c), step.neighbour)

\* C18: every iteration that does not end the call either carves exactly
\* one passage from the selected cell to one of its in-bounds neighbours
\* whose mask is 0 and appends that neighbour at the end of the frontier,
\* or, exactly when no in-bounds neighbour of the selected cell has mask 0,
\* removes the selected entry.
IterationCarvesOrRemoves ==
    [][\A c \in Calls :
            Iterates(c) => CarvesOrRemoves(c, hist'[c].step, hist'[c].step.cell)]_vars

\* An entry that is not the last one was removed after three passages.
RemovedInside ==
    /\ hist[1].step.kind = "remove" /\ hist[1].carved >= 3
    /\ hist[1].step.cell_index < hist[1].step.count - 1

\* The sequence q without its entry at the C index i.
Without(q, i) == [j \in 1..(Len(q) - 1) |-> IF j <= i THEN q[j] ELSE q[j + 1]]

\* What the iteration of call c leaves alone.  A removal leaves every mask
\* as it was and the frontier as it was but for the removed entry; a carve
\* leaves every entry of the frontier in its place and every mask but
\* those of the current cell and the chosen neighbour.
FrameOf(c, step) ==
    /\ step.kind = "remove" =>
            /\ \A cell \in Cells(c) : MaskAfter(c, cell) = MaskOf(c, cell)
            /\ FrontierAfter(c) = Without(Frontier(c), step.cell_index)
    /\ step.kind = "carve" =>
            /\ \A j \in 1..cells_size[c] : FrontierAfter(c)[j] = Frontier(c)[j]
            /\ \A cell \in Cells(c) \ {step.cell, step.neighbour} :
                    MaskAfter(c, cell) = MaskOf(c, cell)

\* C19: removing the entry at index i leaves the grid unchanged and the
\* frontier equal to the old frontier with entry i deleted, the order of
\* the other entries preserved; carving leaves the existing entries of the
\* frontier in place and changes no mask but those of the current cell and
\* the chosen neighbour.
IterationFrame ==
    [][\A c \in Calls : Iterates(c) => FrameOf(c, hist'[c].step)]_vars

\* The first of at least three entries was removed.
RemovedFirstOfThree ==
    /\ hist[1].step.kind = "remove" /\ hist[1].step.cell_index = 0
    /\ hist[1].step.count >= 3

\* The iteration of call c with the selection sel: the strategy is invoked
\* exactly when the frontier holds at least two entries, with its length as
\* count; a frontier of one entry is served from index 0 without a call;
\* and an index of count or more ends the call with 0 in this iteration,
\* the buffer (grid and frontier) and the frontier length as they were.
SelectionOn(c, sel, step) ==
    /\ sel.invoked <=> (cells_size[c] >= 2)
    /\ sel.count = cells_size[c]
    /\ step.cell_index = sel.index
    /\ ~sel.invoked => (sel.index = 0 /\ step.kind # "abort")
    /\ (sel.invoked /\ sel.index >= sel.count) =>
            /\ step.kind = "abort"
            /\ pc'[c] = "done" /\ ret'[c] = 0
            /\ output'[c] = output[c] /\ cells_size'[c] = cells_size[c]
    /\ (sel.invoked /\ sel.index < sel.count) =>
            /\ step.kind # "abort" /\ pc'[c] = "loop"
    /\ step.kind # "abort" => step.cell = Frontier(c)[sel.index + 1]

\* C20: the strategy is invoked exactly on the iterations where the
\* frontier holds at least two entries, with count its current length; an
\* iteration on a frontier of one entry uses index 0 without invoking it;
\* and an invocation that returns count or more makes the call return 0 in
\* that iteration without another change of the grid or the frontier.
StrategyConsulted ==
    [][\A c \in Calls :
            (pc[c] = "loop" /\ hist'[c] # hist[c])
                => SelectionOn(c, hist'[c].sel, hist'[c].step)]_vars

\* A strategy free in what it returns ended the call from a frontier of
\* at least three entries.
FreeStrategyAborted ==
    /\ pc[1] = "done" /\ ret[1] = 0 /\ args[1].strategy = "free"
    /\ hist[1].step.kind = "abort" /\ hist[1].step.count >= 3
    /\ hist[1].carved >= 2

\* The index returned and the generator state left when the value d has
\* been drawn from [0,100]: a draw from [0,count) when d is below the
\* threshold t, else count - 1 and no other draw.
AfterDraw(count, d, r, t) ==
    IF d.value < t
    THEN [index |-> r.value, prng |-> r.prng]
    ELSE [index |-> count - 1, prng |-> d.prng]

\* An invocation that first draws one value from [0,100].
DrawingFirst(count, d, t) ==
    AfterDraw(count, d, mazelib_prng_next_in_range(d.prng, count), t)

\* An invocation that draws nothing and returns count - 1.
NotDrawing(count, s) == [index |-> count - 1, prng |-> s]

\* The iteration of call c selected e.index and went on (to its shuffle)
\* from the generator state e.prng.
SelectedAs(c, e) ==
    /\ hist'[c].sel.index = e.index
    /\ e.index < cells_size[c]
    /\ prng'[c] = Shuffle(directions[c], e.prng).prng

\* Call c, made through mazelib_generate, runs an iteration that invokes
\* the default strategy.
InvokesDefault(c) ==
    /\ pc[c] = "loop" /\ hist'[c] # hist[c]
    /\ args[c].api = "generate" /\ hist'[c].sel.invoked
    /\ threshold[c] \in 0..100

\* C21 as stated: for every threshold in [0,100], 0 included, each
\* invocation of the default strategy first draws one value from [0,100],
\* then returns a draw from [0,count) if that value is below the threshold
\* and count - 1 otherwise.
EveryInvocationDraws ==
    [][\A c \in Calls :
            InvokesDefault(c) =>
                SelectedAs(c, DrawingFirst(cells_size[c],
                                           mazelib_prng_next_in_range(prng[c], 101),
                                           threshold[c]))]_vars

\* C21, amended: for every threshold in [1,100] each invocation of the
\* default strategy first draws one value from [0,100], then returns a draw
\* from [0,count) if that value is below the threshold and count - 1
\* otherwise; with threshold 0 it returns count - 1 and draws nothing.
InvocationDrawsUnlessZero ==
    [][\A c \in Calls :
            InvokesDefault(c) =>
                IF threshold[c] = 0
                THEN SelectedAs(c, NotDrawing(cells_size[c], prng[c]))
                ELSE SelectedAs(c, DrawingFirst(cells_size[c],
                                                mazelib_prng_next_in_range(prng[c], 101),
                                                threshold[c]))]_vars

\* With threshold 50 an invocation drew a value below the threshold and
\* then an index that is not the last of at least three.
DrawnIndexReached ==
    /\ args[1].api = "generate" /\ threshold[1] = 50
    /\ hist[1].sel.invoked /\ hist[1].sel.count >= 3
    /\ hist[1].sel.draw >= 0 /\ hist[1].sel.draw < 50
    /\ hist[1].sel.index < hist[1].sel.count - 1

\* C22: in a blockwise result that succeeded, for every cell (x, y) of the
\* maze the wall grid byte at (2x + 1, 2y + 2) is 0 exactly when the mask
\* of (x, y) in the compact grid of the traversal has the south bit, the
\* byte at (2x + 2, 2y + 1) is 0 exactly when it has the east bit, and
\* every byte with both coordinates even is 1.
WallsEncodePassages ==
    \A c \in Calls :
        (Made(c) /\ HasCells(c) /\ args[c].blockwise # 0 /\ Succeeded(c))
            => /\ \A x \in 0..(args[c].width - 1), y \in 0..(args[c].height - 1) :
                    /\ (WallAt(c, (2 * x) + 1, (2 * y) + 2) = 0)
                            <=> HasBit(MaskAt(c, x, y), mazelib_south)
                    /\ (WallAt(c, (2 * x) + 2, (2 * y) + 1) = 0)
                            <=> HasBit(MaskAt(c, x, y), mazelib_east)
               /\ \A x \in 0..args[c].width, y \in 0..args[c].height :
                    WallAt(c, 2 * x, 2 * y) = 1

\* A blockwise result of the largest grid holds a cell with passages to
\* the south and to the east and a cell with neither.
WallsEncodedReached ==
    /\ Succeeded(1) /\ args[1].blockwise # 0
    /\ args[1].width = MaxWidth /\ args[1].height = MaxHeight
    /\ \E x \in 0..(MaxWidth - 1), y \in 0..(MaxHeight - 1) :
            /\ HasBit(MaskAt(1, x, y), mazelib_south)
            /\ HasBit(MaskAt(1, x, y), mazelib_east)
            /\ WallAt(1, (2 * x) + 1, (2 * y) + 2) = 0
    /\ \E x \in 0..(MaxWidth - 1), y \in 0..(MaxHeight - 1) :
            /\ ~HasBit(MaskAt(1, x, y), mazelib_south)
            /\ ~HasBit(MaskAt(1, x, y), mazelib_east)
            /\ WallAt(1, (2 * x) + 1, (2 * y) + 2) = 1

\* The call has laid out its buffer.
Laid(c) == frame[c] # NoFrame

\* The offsets of the grid, of the frontier array and of the wall grid in
\* the buffer of call c, and those of the required size.
GridRegion(c) == frame[c].grid..(frame[c].grid + CellCount(c) - 1)

FrontierRegion(c) ==
    frame[c].cells..(frame[c].cells + (CellCount(c) * frame[c].cell_bytes) - 1)

WallRegion(c) == 0..((((2 * args[c].width) + 1) * ((2 * args[c].height) + 1)) - 1)

RequiredRegion(c) == 0..(frame[c].required_size - 1)

\* The regions lie in the required size and apart from one another, and
\* the entries and cells the last iteration worked on lie in them.
RegionsApart(c) ==
    /\ GridRegion(c) \subseteq RequiredRegion(c)
    /\ FrontierRegion(c) \subseteq RequiredRegion(c)
    /\ GridRegion(c) \cap FrontierRegion(c) = {}
    /\ args[c].blockwise # 0 =>
            /\ WallRegion(c) \subseteq RequiredRegion(c)
            /\ WallRegion(c) \cap GridRegion(c) = {}
    /\ hist[c].step.kind \in {"carve", "remove"} =>
            /\ hist[c].step.cell_index < hist[c].step.count
            /\ hist[c].step.count <= CellCount(c)
            /\ hist[c].step.cell \in Cells(c)
    /\ hist[c].step.kind = "carve" =>
            /\ hist[c].step.count < CellCount(c)
            /\ hist[c].step.neighbour \in Cells(c)

\* The offsets a step of call c may write: the wall grid in the blockwise
\* pass, the grid and the frontier array before it.
Writable(c) ==
    IF pc[c] = "loop" /\ cells_size[c] = 0
    THEN WallRegion(c)
    ELSE GridRegion(c) \cup FrontierRegion(c)

\* The step changes no byte of the buffer of call c outside what it may
\* write, nor one at or after the required size.
WritesInside(c) ==
    /\ Len(output'[c]) = Len(output[c])
    /\ \A i \in 1..Len(output[c]) :
            output'[c][i] # output[c][i]
                => (i - 1 \in Writable(c) /\ i - 1 \in RequiredRegion(c))

\* C23: whatever the size of the buffer beyond the required size, every
\* byte the run reads or writes lies in [0, required size); the grid region
\* and the frontier region are disjoint in both formats; and in the
\* blockwise format the wall grid region lies apart from the compact grid
\* region, so that the blockwise pass reads no grid byte the wall fill has
\* overwritten.
AccessesInsideRequired ==
    /\ [](\A c \in Calls : Laid(c) => RegionsApart(c))
    /\ [][\A c \in Calls : pc[c] \in {"start", "loop"} => WritesInside(c)]_vars

\* The same for the grids of at least one cell.
AccessesInsideRequiredOnMazes ==
    /\ [](\A c \in Calls : (Laid(c) /\ HasCells(c)) => RegionsApart(c))
    /\ [][\A c \in Calls :
            (pc[c] \in {"start", "loop"} /\ HasCells(c)) => WritesInside(c)]_vars

\* The four directions.
Directions == {mazelib_west, mazelib_east, mazelib_north, mazelib_south}

\* dirs holds each of the four directions once.
IsPermutation(dirs) ==
    /\ Len(dirs) = 4
    /\ \A d \in Directions : Cardinality({i \in 1..4 : dirs[i] = d}) = 1

\* The iteration of call c on the cell removes it after the scan of the
\* array dirs: every direction is in the array, and leads out of the grid
\* or to a cell that has a passage.
TestedAll(c, cell, dirs) ==
    \A d \in Directions :
        /\ \E i \in 1..4 : dirs[i] = d
        /\ ~Unvisited(output[c], frame[c].grid,
                      Probe(d, cell \div args[c].height, cell % args[c].height,
                            args[c].width, args[c].height),
                      args[c].height)

\* C24: from its initialisation on, the directions array, shuffled in
\* place at every iteration and never reset, is a permutation of west = 1,
\* east = 2, north = 4, south = 8; and an iteration that removes its cell
\* has tested each of the four directions.
DirectionsPermuted ==
    /\ [](\A c \in Calls : Laid(c) => IsPermutation(directions[c]))
    /\ [][\A c \in Calls :
            (Iterates(c) /\ hist'[c].step.kind = "remove")
                => TestedAll(c, hist'[c].step.cell, directions'[c])]_vars

\* After at least three shuffles the array is in another order than the
\* one it was initialised with, and the iteration removed its cell.
ShuffledReached ==
    /\ pc[1] = "loop" /\ hist[1].step.kind = "remove" /\ hist[1].carved >= 3
    /\ directions[1] # <<mazelib_west, mazelib_east, mazelib_north, mazelib_south>>
    /\ directions[1][1] = mazelib_south

\* C25: mazelib_generate never fails once its argument checks pass: for
\* every width, height >= 1, every seed, every threshold and every non-null
\* buffer of at least the required size the call is not killed and returns
\* a nonzero value (the default strategy always returns an index below
\* count).
GenerateNeverFails ==
    \A c \in Calls :
        (args[c].api = "generate" /\ HasCells(c))
            => /\ pc[c] # "crashed"
               /\ pc[c] = "returned" => ret[c] # 0

\* The same for the dimensions of Spec, whose grids fit in the required
\* size: the default strategy stays in range and the call returns a
\* nonzero value.
GenerateSucceedsWhenGridFits ==
    \A c \in Calls :
        (args[c].api = "generate" /\ HasCells(c) /\ Adequate(args[c]))
            => /\ pc[c] # "crashed"
               /\ hist[c].step.kind # "abort"
               /\ hist[c].sel.invoked => hist[c].sel.index < hist[c].sel.count
               /\ pc[c] = "done" => ret[c] # 0
               /\ pc[c] \in {"entry", "start", "loop", "done"} => threshold[c] \in 0..100

=============================================================================
